---- MODULE Spec2Model ----
(***************************************************************************)
(* Model of the user service (src/main.go): the UserStore guarded by a     *)
(* sync.RWMutex, the HTTP handlers built on it, the CORS middleware and    *)
(* the seeding done by main.                                               *)
(*                                                                         *)
(* Every request is served by its own goroutine; a goroutine is a process  *)
(* of the model and pc[p] is its position in the code.  A store method is  *)
(* split at every access to shared memory: taking the lock, each access to *)
(* the map, releasing the lock.  The assignment s.users[k] = v is not one  *)
(* memory operation: the runtime finds or creates the slot of k and then   *)
(* copies the three string fields of v into it, so it is modelled as three *)
(* steps (slot and ID, Name, Email).                                       *)
(*                                                                         *)
(* Two specifications: Spec is the running service (main seeds the store   *)
(* and then requests are served concurrently); SpecStore is the bare       *)
(* UserStore, freshly constructed, whose methods are called directly and   *)
(* concurrently with arbitrary arguments.                                  *)
(***************************************************************************)
EXTENDS Naturals, Sequences, FiniteSets, TLC

\* ------------------------------------------------------------------ bounds
\* Number of request goroutines that run concurrently.
NumWorkers == 2

Workers == 1..NumWorkers
\* The goroutine of main.
Main == NumWorkers + 1
Procs == Workers \cup {Main}

\* ------------------------------------------------------------- data domain
\* Identifiers used as path parameters and record identifiers.
Ids == {"1", "2"}
\* The names and e-mail addresses of the sample users; a request body carries
\* those of the second one.
Names == {"John Doe", "Jane Smith"}
Emails == {"john@example.com", "jane@example.com"}
BodyNames == {"Jane Smith"}
BodyEmails == {"jane@example.com"}

\* type User struct { ID, Name, Email string }
User == [ID : Ids \cup {""}, Name : Names \cup {""}, Email : Emails \cup {""}]

\* The zero value of User ("var user User", a new map slot, a failed lookup).
ZeroUser == [ID |-> "", Name |-> "", Email |-> ""]

\* The two sample users main creates.
SampleUsers ==
    << [ID |-> "1", Name |-> "John Doe", Email |-> "john@example.com"],
       [ID |-> "2", Name |-> "Jane Smith", Email |-> "jane@example.com"] >>

\* users: make(map[string]User)
EmptyMap == [k \in {} |-> ZeroUser]

\* ----------------------------------------------------------- request domain
\* A JSON request body: either text that does not decode, or an object in
\* which each of the keys "id", "name", "email" is absent or has a string value.
Absent == "<absent>"
NoBody == [valid |-> FALSE, id |-> Absent, name |-> Absent, email |-> Absent]
Bodies ==
    {NoBody} \cup
    [valid : {TRUE},
     id : Ids \cup {Absent},
     name : BodyNames \cup {Absent, ""},
     email : BodyEmails \cup {Absent}]

Methods == {"GET", "POST", "PUT", "DELETE", "OPTIONS"}
Paths == {"/health", "/users", "/users/{id}"}

NoReq == [method |-> "", path |-> "", id |-> "", body |-> NoBody]

\* The routes main registers; "mux" when no route matches the method.
Route(r) ==
    CASE r.path = "/health" /\ r.method = "GET" -> "healthCheckHandler"
      [] r.path = "/users" /\ r.method = "POST" -> "createUserHandler"
      [] r.path = "/users" /\ r.method = "GET" -> "getAllUsersHandler"
      [] r.path = "/users/{id}" /\ r.method = "GET" -> "getUserHandler"
      [] r.path = "/users/{id}" /\ r.method = "PUT" -> "updateUserHandler"
      [] r.path = "/users/{id}" /\ r.method = "DELETE" -> "deleteUserHandler"
      [] OTHER -> "mux"

\* The requests a client can send.  id is the {id} segment of the path (mux
\* matches only a non-empty segment).  To keep the model small only a request
\* whose handler decodes a body carries one, and a PUT body that decodes may
\* omit "name" but carries an "id" (any, not only that of the path) and an
\* "email"; only a POST body has a "name" that is present and empty.
Requests ==
    { r \in [method : Methods, path : Paths, id : Ids \cup {""}, body : Bodies] :
        /\ (r.path = "/users/{id}") <=> (r.id # "")
        /\ Route(r) \notin {"createUserHandler", "updateUserHandler"} => r.body = NoBody
        /\ r.method = "PUT" /\ r.body.valid =>
              r.body.id # Absent /\ r.body.email # Absent /\ r.body.name # "" }

\* The response written so far: status 0 means nothing written yet.
NoResp == [status |-> 0, kind |-> "none", user |-> ZeroUser, users |-> << >>]

VARIABLES
    users,      \* s.users
    mu,         \* s.mu: w the goroutines holding the write lock, r the read
                \* lock, pending the writer that waits for the readers to leave
    pc,         \* position of each goroutine
    req,        \* the request a goroutine is serving
    cors,       \* whether the middleware set the cross-origin headers
    routed,     \* how often the middleware passed the request to the router
    calls,      \* how many store methods the request has invoked
    user,       \* the handler's "user" / the argument of Create and Update
    id,         \* the argument of Get and Delete
    got,        \* the record Get returned
    ok,         \* the boolean Get, Update or Delete returned ("exists")
    acc,        \* the slice GetAll builds
    visited,    \* the keys the range loop of GetAll has visited
    resp,       \* the response
    whole,      \* history: per key, the last record passed whole to a write
    lastOp,     \* history: per key, the last method that changed the key
    created     \* history: the records created so far, while every Create had
                \* a new identifier and no Delete removed one

vars == << users, mu, pc, req, cors, routed, calls, user, id, got, ok, acc,
           visited, resp, whole, lastOp, created >>

locals == << user, id, got, ok, acc, visited >>
http == << req, cors, routed, calls, resp >>
history == << whole, lastOp, created >>

\* ---------------------------------------------------------- sync.RWMutex
\* A Lock that does not wait for the readers to leave.
CanLock_IgnoreReaders(m) == m.w = {}
\* Lock blocks until no goroutine holds the lock for reading or writing.
CanLock(m) == m.w = {} /\ m.r = {}
\* An RLock that does not wait for the writer to leave.
CanRLock_Unguarded(m) == TRUE
\* RLock blocks while a goroutine holds the lock for writing or is pending
\* for it.
CanRLock(m) == m.w = {} /\ m.pending = {}

\* First part of Lock: among the writers one at a time goes on, and it tells
\* the readers that a writer is pending; from then on RLock blocks.
CanAnnounce(m) == m.w = {} /\ m.pending = {}
Announce(p) ==
    /\ p \notin mu.pending
    /\ CanAnnounce(mu)
    /\ mu' = [mu EXCEPT !.pending = @ \cup {p}]
\* Second part of Lock: the pending writer waits for the readers to leave.
Lock(p) ==
    /\ p \in mu.pending
    /\ CanLock(mu)
    /\ mu' = [mu EXCEPT !.w = @ \cup {p}, !.pending = @ \ {p}]
Unlock(p) == mu' = [mu EXCEPT !.w = @ \ {p}]
RLock(p) == CanRLock(mu) /\ mu' = [mu EXCEPT !.r = @ \cup {p}]
RUnlock(p) == mu' = [mu EXCEPT !.r = @ \ {p}]

\* ------------------------------------------------------------ map helpers
Has(m, k) == k \in DOMAIN m
\* m[k] of Go: the zero value when k is absent.
Lookup(m, k) == IF Has(m, k) THEN m[k] ELSE ZeroUser
\* m with k bound to v.
Put(m, k, v) == [x \in DOMAIN m \cup {k} |-> IF x = k THEN v ELSE m[x]]
\* A delete that removes nothing.
Remove_Nothing(m, k) == m
\* delete(m, k)
Remove(m, k) == [x \in DOMAIN m \ {k} |-> m[x]]
\* The records of a slice, as a set.
Range(s) == {s[i] : i \in 1..Len(s)}

\* An assignment that finds or creates the slot of k but copies no ID.
AssignID_NoID(m, v) == Put(m, v.ID, Lookup(m, v.ID))

\* First part of s.users[k] = v: the slot of k is found, or created zeroed,
\* and the ID field is copied into it.
AssignID(m, v) == Put(m, v.ID, [Lookup(m, v.ID) EXCEPT !.ID = v.ID])
\* Second and third part: the Name and the Email field are copied.
\* An assignment that keeps the old Name when the new one is empty.
AssignName_KeepIfEmpty(m, v) ==
    IF v.Name = "" THEN m ELSE Put(m, v.ID, [Lookup(m, v.ID) EXCEPT !.Name = v.Name])
AssignName(m, v) == Put(m, v.ID, [Lookup(m, v.ID) EXCEPT !.Name = v.Name])
\* An assignment that loses the last field.
AssignEmail_Lost(m, v) == m
AssignEmail(m, v) == Put(m, v.ID, [Lookup(m, v.ID) EXCEPT !.Email = v.Email])

Goto(p, l) == pc' = [pc EXCEPT ![p] = l]

\* History of the Creates: as long as every Create had an identifier not
\* created before and no Delete removed a record (distinct), ids holds the
\* identifiers created; recs holds the records created until an Update
\* replaces one of them (changed).
NoCreates == [distinct |-> TRUE, changed |-> FALSE, ids |-> {}, recs |-> {}]
Forgotten == [distinct |-> FALSE, changed |-> FALSE, ids |-> {}, recs |-> {}]
NoteCreate(c, u) ==
    IF c.distinct /\ u.ID \notin c.ids
      THEN [c EXCEPT !.ids = @ \cup {u.ID},
                     !.recs = IF c.changed THEN {} ELSE @ \cup {u}]
      ELSE Forgotten
NoteUpdate(c) == IF c.distinct THEN [c EXCEPT !.changed = TRUE, !.recs = {}] ELSE c

\* s.mu.Lock() of Create, Update and Delete, up to the point where the writer
\* is pending.
Lock_Announce(p) ==
    /\ pc[p] \in {"Create_Lock", "Update_Lock", "Delete_Lock"}
    /\ Announce(p)
    /\ UNCHANGED << users, pc, locals, http, history >>

\* ------------------------------------------------------- UserStore.Create
Create_Lock(p) ==
    /\ pc[p] = "Create_Lock"
    /\ Lock(p)
    /\ Goto(p, "Create_Assign")
    /\ UNCHANGED << users, locals, http, history >>

Create_Assign(p) ==
    /\ pc[p] = "Create_Assign"
    /\ users' = AssignID(users, user[p])
    /\ whole' = Put(whole, user[p].ID, user[p])
    /\ lastOp' = [lastOp EXCEPT ![user[p].ID] = "Create"]
    /\ created' = NoteCreate(created, user[p])
    /\ Goto(p, "Create_Name")
    /\ UNCHANGED << mu, locals, http >>

Create_Name(p) ==
    /\ pc[p] = "Create_Name"
    /\ users' = AssignName(users, user[p])
    /\ Goto(p, "Create_Email")
    /\ UNCHANGED << mu, locals, http, history >>

Create_Email(p) ==
    /\ pc[p] = "Create_Email"
    /\ users' = AssignEmail(users, user[p])
    /\ Goto(p, "Create_Unlock")
    /\ UNCHANGED << mu, locals, http, history >>

Create_Unlock(p) ==
    /\ pc[p] = "Create_Unlock"
    /\ Unlock(p)
    /\ Goto(p, "Create_Ret")
    /\ UNCHANGED << users, locals, http, history >>

\* ---------------------------------------------------------- UserStore.Get
Get_Lock(p) ==
    /\ pc[p] = "Get_Lock"
    /\ RLock(p)
    /\ Goto(p, "Get_Read")
    /\ UNCHANGED << users, locals, http, history >>

\* A Get served from the records main seeded, not from the map.
Get_Read_Seeded(p) ==
    /\ pc[p] = "Get_Read"
    /\ got' = [got EXCEPT ![p] =
                 IF \E i \in DOMAIN SampleUsers : SampleUsers[i].ID = id[p]
                   THEN (CHOOSE u \in Range(SampleUsers) : u.ID = id[p])
                   ELSE ZeroUser]
    /\ ok' = [ok EXCEPT ![p] = \E i \in DOMAIN SampleUsers : SampleUsers[i].ID = id[p]]
    /\ Goto(p, "Get_Unlock")
    /\ UNCHANGED << users, mu, user, id, acc, visited, http, history >>

\* A Get that leaves a zero record in the map under an identifier it does
\* not find.
Get_Read_Insert(p) ==
    /\ pc[p] = "Get_Read"
    /\ got' = [got EXCEPT ![p] = Lookup(users, id[p])]
    /\ ok' = [ok EXCEPT ![p] = Has(users, id[p])]
    /\ users' = Put(users, id[p], Lookup(users, id[p]))
    /\ Goto(p, "Get_Unlock")
    /\ UNCHANGED << mu, user, id, acc, visited, http, history >>

Get_Read(p) ==
    /\ pc[p] = "Get_Read"
    /\ got' = [got EXCEPT ![p] = Lookup(users, id[p])]
    /\ ok' = [ok EXCEPT ![p] = Has(users, id[p])]
    /\ Goto(p, "Get_Unlock")
    /\ UNCHANGED << users, mu, user, id, acc, visited, http, history >>

Get_Unlock(p) ==
    /\ pc[p] = "Get_Unlock"
    /\ RUnlock(p)
    /\ Goto(p, "Get_Ret")
    /\ UNCHANGED << users, locals, http, history >>

\* ------------------------------------------------------- UserStore.GetAll
\* A GetAll that ranges over the map without taking the read lock.
GetAll_Lock_NoRLock(p) ==
    /\ pc[p] = "GetAll_Lock"
    /\ acc' = [acc EXCEPT ![p] = << >>]
    /\ visited' = [visited EXCEPT ![p] = {}]
    /\ Goto(p, "GetAll_Range")
    /\ UNCHANGED << users, mu, user, id, got, ok, http, history >>

GetAll_Lock(p) ==
    /\ pc[p] = "GetAll_Lock"
    /\ RLock(p)
    /\ acc' = [acc EXCEPT ![p] = << >>]
    /\ visited' = [visited EXCEPT ![p] = {}]
    /\ Goto(p, "GetAll_Range")
    /\ UNCHANGED << users, user, id, got, ok, http, history >>

\* A loop that passes over an entry without appending it.
GetAll_Range_Skip(p) ==
    /\ pc[p] = "GetAll_Range"
    /\ \E k \in DOMAIN users \ visited[p] :
          visited' = [visited EXCEPT ![p] = @ \cup {k}]
    /\ UNCHANGED << users, mu, pc, user, id, got, ok, acc, http, history >>

\* A loop that appends an entry without marking it visited, so that the
\* entry can be appended again.
GetAll_Range_Again(p) ==
    /\ pc[p] = "GetAll_Range"
    /\ Len(acc[p]) <= Cardinality(DOMAIN users)
    /\ \E k \in DOMAIN users \ visited[p] :
          /\ acc' = [acc EXCEPT ![p] = Append(@, users[k])]
          /\ visited' = [visited EXCEPT ![p] =
                            IF Len(acc[p]) = 0 THEN @ ELSE @ \cup {k}]
    /\ UNCHANGED << users, mu, pc, user, id, got, ok, http, history >>

\* One iteration of the range loop: some entry not yet visited is appended
\* (the order of iteration is unspecified).
GetAll_Range(p) ==
    /\ pc[p] = "GetAll_Range"
    /\ \E k \in DOMAIN users \ visited[p] :
          /\ acc' = [acc EXCEPT ![p] = Append(@, users[k])]
          /\ visited' = [visited EXCEPT ![p] = @ \cup {k}]
    /\ UNCHANGED << users, mu, pc, user, id, got, ok, http, history >>

\* The loop ends when no entry is left; the deferred RUnlock runs.
GetAll_Unlock(p) ==
    /\ pc[p] = "GetAll_Range"
    /\ DOMAIN users \ visited[p] = {}
    /\ RUnlock(p)
    /\ Goto(p, "GetAll_Ret")
    /\ UNCHANGED << users, locals, http, history >>

\* ------------------------------------------------------- UserStore.Update
\* An Update that checks and assigns without taking the lock.
Update_Lock_NoLock(p) ==
    /\ pc[p] = "Update_Lock"
    /\ Goto(p, "Update_Check")
    /\ UNCHANGED << users, mu, locals, http, history >>

Update_Lock(p) ==
    /\ pc[p] = "Update_Lock"
    /\ Lock(p)
    /\ Goto(p, "Update_Check")
    /\ UNCHANGED << users, locals, http, history >>

\* An Update that assigns whether or not the identifier exists.
Update_Check_Upsert(p) ==
    /\ pc[p] = "Update_Check"
    /\ Goto(p, "Update_Assign")
    /\ UNCHANGED << users, mu, locals, http, history >>

\* An Update whose early return leaves without unlocking (no defer).
Update_Check_NoUnlock(p) ==
    /\ pc[p] = "Update_Check"
    /\ IF Has(users, user[p].ID)
         THEN Goto(p, "Update_Assign") /\ UNCHANGED ok
         ELSE Goto(p, "Update_Ret") /\ ok' = [ok EXCEPT ![p] = FALSE]
    /\ UNCHANGED << users, mu, user, id, got, acc, visited, http, history >>

\* if _, exists := s.users[user.ID]; exists { ... } return false
Update_Check(p) ==
    /\ pc[p] = "Update_Check"
    /\ IF Has(users, user[p].ID)
         THEN Goto(p, "Update_Assign") /\ UNCHANGED ok
         ELSE Goto(p, "Update_Unlock") /\ ok' = [ok EXCEPT ![p] = FALSE]
    /\ UNCHANGED << users, mu, user, id, got, acc, visited, http, history >>

Update_Assign(p) ==
    /\ pc[p] = "Update_Assign"
    /\ users' = AssignID(users, user[p])
    /\ whole' = Put(whole, user[p].ID, user[p])
    /\ lastOp' = [lastOp EXCEPT ![user[p].ID] = "Update"]
    /\ created' = NoteUpdate(created)
    /\ Goto(p, "Update_Name")
    /\ UNCHANGED << mu, locals, http >>

Update_Name(p) ==
    /\ pc[p] = "Update_Name"
    /\ users' = AssignName(users, user[p])
    /\ Goto(p, "Update_Email")
    /\ UNCHANGED << mu, locals, http, history >>

Update_Email(p) ==
    /\ pc[p] = "Update_Email"
    /\ users' = AssignEmail(users, user[p])
    /\ ok' = [ok EXCEPT ![p] = TRUE]
    /\ Goto(p, "Update_Unlock")
    /\ UNCHANGED << mu, user, id, got, acc, visited, http, history >>

Update_Unlock(p) ==
    /\ pc[p] = "Update_Unlock"
    /\ Unlock(p)
    /\ Goto(p, "Update_Ret")
    /\ UNCHANGED << users, locals, http, history >>

\* ------------------------------------------------------- UserStore.Delete
Delete_Lock(p) ==
    /\ pc[p] = "Delete_Lock"
    /\ Lock(p)
    /\ Goto(p, "Delete_Check")
    /\ UNCHANGED << users, locals, http, history >>

Delete_Check(p) ==
    /\ pc[p] = "Delete_Check"
    /\ IF Has(users, id[p])
         THEN Goto(p, "Delete_Remove") /\ UNCHANGED ok
         ELSE Goto(p, "Delete_Unlock") /\ ok' = [ok EXCEPT ![p] = FALSE]
    /\ UNCHANGED << users, mu, user, id, got, acc, visited, http, history >>

Delete_Remove(p) ==
    /\ pc[p] = "Delete_Remove"
    /\ users' = Remove(users, id[p])
    /\ whole' = Remove(whole, id[p])
    /\ lastOp' = [lastOp EXCEPT ![id[p]] = "Delete"]
    /\ created' = Forgotten
    /\ ok' = [ok EXCEPT ![p] = TRUE]
    /\ Goto(p, "Delete_Unlock")
    /\ UNCHANGED << mu, user, id, got, acc, visited, http >>

Delete_Unlock(p) ==
    /\ pc[p] = "Delete_Unlock"
    /\ Unlock(p)
    /\ Goto(p, "Delete_Ret")
    /\ UNCHANGED << users, locals, http, history >>

\* Every step of a store method.
StoreStep(p) ==
    \/ Lock_Announce(p)
    \/ Create_Lock(p) \/ Create_Assign(p) \/ Create_Name(p)
    \/ Create_Email(p) \/ Create_Unlock(p)
    \/ Get_Lock(p) \/ Get_Read(p) \/ Get_Unlock(p)
    \/ GetAll_Lock(p) \/ GetAll_Range(p) \/ GetAll_Unlock(p)
    \/ Update_Lock(p) \/ Update_Check(p) \/ Update_Assign(p)
    \/ Update_Name(p) \/ Update_Email(p) \/ Update_Unlock(p)
    \/ Delete_Lock(p) \/ Delete_Check(p) \/ Delete_Remove(p) \/ Delete_Unlock(p)

\* ------------------------------------------------------------ HTTP layer
StatusOK == 200
StatusCreated == 201
StatusNoContent == 204
StatusBadRequest == 400
StatusNotFound == 404
StatusMethodNotAllowed == 405

\* json.NewDecoder(r.Body).Decode(&user) on "var user User": a key that is
\* absent leaves the field at its zero value.
Field(v) == IF v = Absent THEN "" ELSE v
DecodeOk(b) == b.valid
Decode(b) == [ID |-> Field(b.id), Name |-> Field(b.name), Email |-> Field(b.email)]

Reply(p, st, kind, u, us) ==
    resp' = [resp EXCEPT ![p] = [status |-> st, kind |-> kind, user |-> u, users |-> us]]

\* A middleware that hands every request, OPTIONS included, to the router.
corsMiddleware_PassOptions(p) ==
    /\ p \in Workers
    /\ pc[p] = "idle"
    /\ pc[Main] = "ListenAndServe"
    /\ \E r \in Requests :
          /\ req' = [req EXCEPT ![p] = r]
          /\ cors' = [cors EXCEPT ![p] = TRUE]
          /\ routed' = [routed EXCEPT ![p] = @ + 1]
          /\ Goto(p, Route(r))
    /\ UNCHANGED << users, mu, calls, resp, locals, history >>

\* The server accepts a request on a goroutine and runs the middleware.
corsMiddleware(p) ==
    /\ p \in Workers
    /\ pc[p] = "idle"
    /\ pc[Main] = "ListenAndServe"
    /\ \E r \in Requests :
          /\ req' = [req EXCEPT ![p] = r]
          /\ cors' = [cors EXCEPT ![p] = TRUE]
          /\ IF r.method = "OPTIONS"
               THEN /\ Reply(p, StatusOK, "none", ZeroUser, << >>)
                    /\ Goto(p, "done")
                    /\ UNCHANGED routed
               ELSE /\ routed' = [routed EXCEPT ![p] = @ + 1]
                    /\ Goto(p, Route(r))
                    /\ UNCHANGED resp
    /\ UNCHANGED << users, mu, calls, locals, history >>

\* The router's answer when no route matches the method of the request.
mux_NoMatch(p) ==
    /\ pc[p] = "mux"
    /\ Reply(p, StatusMethodNotAllowed, "none", ZeroUser, << >>)
    /\ Goto(p, "done")
    /\ UNCHANGED << users, mu, req, cors, routed, calls, locals, history >>

healthCheckHandler(p) ==
    /\ pc[p] = "healthCheckHandler"
    /\ Reply(p, StatusOK, "health", ZeroUser, << >>)
    /\ Goto(p, "done")
    /\ UNCHANGED << users, mu, req, cors, routed, calls, locals, history >>

\* A check that forgets the e-mail address, and one that forgets the identifier.
CreateValid_NoEmail(u) == ~(u.ID = "" \/ u.Name = "")
CreateValid_NoID(u) == ~(u.Name = "" \/ u.Email = "")
\* What createUserHandler requires of the decoded record.
CreateValid(u) == ~(u.ID = "" \/ u.Name = "" \/ u.Email = "")

\* createUserHandler up to the call of store.Create.
createUserHandler(p) ==
    /\ pc[p] = "createUserHandler"
    /\ IF ~DecodeOk(req[p].body)
         THEN /\ Reply(p, StatusBadRequest, "decode error", ZeroUser, << >>)
              /\ Goto(p, "done")
              /\ UNCHANGED << user, calls >>
         ELSE /\ user' = [user EXCEPT ![p] = Decode(req[p].body)]
              /\ IF ~CreateValid(Decode(req[p].body))
                   THEN /\ Reply(p, StatusBadRequest, "required", ZeroUser, << >>)
                        /\ Goto(p, "done")
                        /\ UNCHANGED calls
                   ELSE /\ calls' = [calls EXCEPT ![p] = @ + 1]
                        /\ Goto(p, "Create_Lock")
                        /\ UNCHANGED resp
    /\ UNCHANGED << users, mu, req, cors, routed, id, got, ok, acc, visited, history >>

\* createUserHandler after store.Create returned.
createUserHandler_Reply(p) ==
    /\ p \in Workers
    /\ pc[p] = "Create_Ret"
    /\ Reply(p, StatusCreated, "user", user[p], << >>)
    /\ Goto(p, "done")
    /\ UNCHANGED << users, mu, req, cors, routed, calls, locals, history >>

getUserHandler(p) ==
    /\ pc[p] = "getUserHandler"
    /\ id' = [id EXCEPT ![p] = req[p].id]
    /\ calls' = [calls EXCEPT ![p] = @ + 1]
    /\ Goto(p, "Get_Lock")
    /\ UNCHANGED << users, mu, req, cors, routed, resp, user, got, ok, acc,
                    visited, history >>

getUserHandler_Reply(p) ==
    /\ p \in Workers
    /\ pc[p] = "Get_Ret"
    /\ IF ~ok[p]
         THEN Reply(p, StatusNotFound, "not found", ZeroUser, << >>)
         ELSE Reply(p, StatusOK, "user", got[p], << >>)
    /\ Goto(p, "done")
    /\ UNCHANGED << users, mu, req, cors, routed, calls, locals, history >>

getAllUsersHandler(p) ==
    /\ pc[p] = "getAllUsersHandler"
    /\ calls' = [calls EXCEPT ![p] = @ + 1]
    /\ Goto(p, "GetAll_Lock")
    /\ UNCHANGED << users, mu, req, cors, routed, resp, locals, history >>

getAllUsersHandler_Reply(p) ==
    /\ p \in Workers
    /\ pc[p] = "GetAll_Ret"
    /\ Reply(p, StatusOK, "users", ZeroUser, acc[p])
    /\ Goto(p, "done")
    /\ UNCHANGED << users, mu, req, cors, routed, calls, locals, history >>

\* A handler that leaves the identifier of the body in the record.
updateUserHandler_BodyID(p) ==
    /\ pc[p] = "updateUserHandler"
    /\ IF ~DecodeOk(req[p].body)
         THEN /\ Reply(p, StatusBadRequest, "decode error", ZeroUser, << >>)
              /\ Goto(p, "done")
              /\ UNCHANGED << user, calls >>
         ELSE /\ user' = [user EXCEPT ![p] = Decode(req[p].body)]
              /\ calls' = [calls EXCEPT ![p] = @ + 1]
              /\ Goto(p, "Update_Lock")
              /\ UNCHANGED resp
    /\ UNCHANGED << users, mu, req, cors, routed, id, got, ok, acc, visited, history >>

\* A handler that writes the 400 of a failed decode and then goes on (no
\* return) with the record left zero by the decoder.
updateUserHandler_NoReturn(p) ==
    /\ pc[p] = "updateUserHandler"
    /\ IF ~DecodeOk(req[p].body)
         THEN /\ Reply(p, StatusBadRequest, "decode error", ZeroUser, << >>)
              /\ user' = [user EXCEPT ![p] = [ZeroUser EXCEPT !.ID = req[p].id]]
         ELSE /\ user' = [user EXCEPT ![p] = [Decode(req[p].body) EXCEPT !.ID = req[p].id]]
              /\ UNCHANGED resp
    /\ calls' = [calls EXCEPT ![p] = @ + 1]
    /\ Goto(p, "Update_Lock")
    /\ UNCHANGED << users, mu, req, cors, routed, id, got, ok, acc, visited, history >>

\* updateUserHandler up to the call of store.Update: decode, then user.ID = id.
updateUserHandler(p) ==
    /\ pc[p] = "updateUserHandler"
    /\ IF ~DecodeOk(req[p].body)
         THEN /\ Reply(p, StatusBadRequest, "decode error", ZeroUser, << >>)
              /\ Goto(p, "done")
              /\ UNCHANGED << user, calls >>
         ELSE /\ user' = [user EXCEPT ![p] = [Decode(req[p].body) EXCEPT !.ID = req[p].id]]
              /\ calls' = [calls EXCEPT ![p] = @ + 1]
              /\ Goto(p, "Update_Lock")
              /\ UNCHANGED resp
    /\ UNCHANGED << users, mu, req, cors, routed, id, got, ok, acc, visited, history >>

updateUserHandler_Reply(p) ==
    /\ p \in Workers
    /\ pc[p] = "Update_Ret"
    /\ IF ~ok[p]
         THEN Reply(p, StatusNotFound, "not found", ZeroUser, << >>)
         ELSE Reply(p, StatusOK, "user", user[p], << >>)
    /\ Goto(p, "done")
    /\ UNCHANGED << users, mu, req, cors, routed, calls, locals, history >>

deleteUserHandler(p) ==
    /\ pc[p] = "deleteUserHandler"
    /\ id' = [id EXCEPT ![p] = req[p].id]
    /\ calls' = [calls EXCEPT ![p] = @ + 1]
    /\ Goto(p, "Delete_Lock")
    /\ UNCHANGED << users, mu, req, cors, routed, resp, user, got, ok, acc,
                    visited, history >>

\* A handler that answers 204 whatever Delete returned.
deleteUserHandler_Reply_NoContent(p) ==
    /\ p \in Workers
    /\ pc[p] = "Delete_Ret"
    /\ Reply(p, StatusNoContent, "none", ZeroUser, << >>)
    /\ Goto(p, "done")
    /\ UNCHANGED << users, mu, req, cors, routed, calls, locals, history >>

deleteUserHandler_Reply(p) ==
    /\ p \in Workers
    /\ pc[p] = "Delete_Ret"
    /\ IF ~ok[p]
         THEN Reply(p, StatusNotFound, "not found", ZeroUser, << >>)
         ELSE Reply(p, StatusNoContent, "none", ZeroUser, << >>)
    /\ Goto(p, "done")
    /\ UNCHANGED << users, mu, req, cors, routed, calls, locals, history >>

\* The goroutine forgets the call or the request it has finished.
Reset(p) ==
    /\ Goto(p, "idle")
    /\ req' = [req EXCEPT ![p] = NoReq]
    /\ cors' = [cors EXCEPT ![p] = FALSE]
    /\ routed' = [routed EXCEPT ![p] = 0]
    /\ calls' = [calls EXCEPT ![p] = 0]
    /\ resp' = [resp EXCEPT ![p] = NoResp]
    /\ user' = [user EXCEPT ![p] = ZeroUser]
    /\ id' = [id EXCEPT ![p] = ""]
    /\ got' = [got EXCEPT ![p] = ZeroUser]
    /\ ok' = [ok EXCEPT ![p] = FALSE]
    /\ acc' = [acc EXCEPT ![p] = << >>]
    /\ visited' = [visited EXCEPT ![p] = {}]

\* The request is over; its goroutine serves the next one.
Finish(p) ==
    /\ pc[p] = "done"
    /\ Reset(p)
    /\ UNCHANGED << users, mu, history >>

HandlerStep(p) ==
    \/ corsMiddleware(p) \/ mux_NoMatch(p) \/ healthCheckHandler(p)
    \/ createUserHandler(p) \/ createUserHandler_Reply(p)
    \/ getUserHandler(p) \/ getUserHandler_Reply(p)
    \/ getAllUsersHandler(p) \/ getAllUsersHandler_Reply(p)
    \/ updateUserHandler(p) \/ updateUserHandler_Reply(p)
    \/ deleteUserHandler(p) \/ deleteUserHandler_Reply(p)
    \/ Finish(p)

\* ------------------------------------------------------------------ main
\* main creates the sample users one after the other ...
main_Create ==
    /\ pc[Main] \in {"main", "Create_Ret"}
    /\ calls[Main] < Len(SampleUsers)
    /\ user' = [user EXCEPT ![Main] = SampleUsers[calls[Main] + 1]]
    /\ calls' = [calls EXCEPT ![Main] = @ + 1]
    /\ Goto(Main, "Create_Lock")
    /\ UNCHANGED << users, mu, req, cors, routed, resp, id, got, ok, acc,
                    visited, history >>

\* ... and then starts the listener.
main_ListenAndServe ==
    /\ pc[Main] = "Create_Ret"
    /\ calls[Main] = Len(SampleUsers)
    /\ Goto(Main, "ListenAndServe")
    /\ UNCHANGED << users, mu, http, locals, history >>

\* ----------------------------------------------------- the specifications
InitVars ==
    /\ users = EmptyMap
    /\ mu = [w |-> {}, r |-> {}, pending |-> {}]
    /\ req = [p \in Procs |-> NoReq]
    /\ cors = [p \in Procs |-> FALSE]
    /\ routed = [p \in Procs |-> 0]
    /\ calls = [p \in Procs |-> 0]
    /\ user = [p \in Procs |-> ZeroUser]
    /\ id = [p \in Procs |-> ""]
    /\ got = [p \in Procs |-> ZeroUser]
    /\ ok = [p \in Procs |-> FALSE]
    /\ acc = [p \in Procs |-> << >>]
    /\ visited = [p \in Procs |-> {}]
    /\ resp = [p \in Procs |-> NoResp]
    /\ whole = EmptyMap
    /\ lastOp = [k \in Ids \cup {""} |-> "none"]
    /\ created = NoCreates

\* The service: store = NewUserStore() is done, main is about to seed it.
Init ==
    /\ InitVars
    /\ pc = [p \in Procs |-> IF p = Main THEN "main" ELSE "idle"]

Next ==
    \/ main_Create
    \/ main_ListenAndServe
    \/ \E p \in Procs : StoreStep(p)
    \/ \E p \in Workers : HandlerStep(p)

Spec == Init /\ [][Next]_vars

\* The bare store: a goroutine calls any method with any argument ...
ApiUsers == [ID : Ids, Name : Names \cup {""}, Email : BodyEmails]

Api_Call(p) ==
    /\ pc[p] = "idle"
    /\ \/ \E u \in ApiUsers, m \in {"Create_Lock", "Update_Lock"} :
             /\ user' = [user EXCEPT ![p] = u]
             /\ Goto(p, m)
             /\ UNCHANGED id
       \/ \E i \in Ids, m \in {"Get_Lock", "Delete_Lock"} :
             /\ id' = [id EXCEPT ![p] = i]
             /\ Goto(p, m)
             /\ UNCHANGED user
       \/ Goto(p, "GetAll_Lock") /\ UNCHANGED << user, id >>
    /\ UNCHANGED << users, mu, http, got, ok, acc, visited, history >>

\* ... and the method returns to it.
Api_Return(p) ==
    /\ pc[p] \in {"Create_Ret", "Get_Ret", "GetAll_Ret", "Update_Ret", "Delete_Ret"}
    /\ Reset(p)
    /\ UNCHANGED << users, mu, history >>

\* store = NewUserStore(), and nothing else has happened.
InitStore ==
    /\ InitVars
    /\ pc = [p \in Procs |-> IF p = Main THEN "none" ELSE "idle"]

NextStore ==
    \/ \E p \in Workers : Api_Call(p)
    \/ \E p \in Workers : StoreStep(p)
    \/ \E p \in Workers : Api_Return(p)

SpecStore == InitStore /\ [][NextStore]_vars

\* ------------------------------------------------- the store, scheduled fairly
\* The steps at which a method waits for s.mu ...
LockStep(p) ==
    \/ Lock_Announce(p)
    \/ Create_Lock(p) \/ Get_Lock(p) \/ GetAll_Lock(p)
    \/ Update_Lock(p) \/ Delete_Lock(p)

\* ... and the steps it takes once it has the lock.
BodyStep(p) ==
    \/ Create_Assign(p) \/ Create_Name(p) \/ Create_Email(p) \/ Create_Unlock(p)
    \/ Get_Read(p) \/ Get_Unlock(p)
    \/ GetAll_Range(p) \/ GetAll_Unlock(p)
    \/ Update_Check(p) \/ Update_Assign(p) \/ Update_Name(p)
    \/ Update_Email(p) \/ Update_Unlock(p)
    \/ Delete_Check(p) \/ Delete_Remove(p) \/ Delete_Unlock(p)

\* A caller on its own goroutine invokes a method with one of the records
\* main seeds, or with the identifier of one.
Fair_Call(p) ==
    /\ pc[p] = "idle"
    /\ \/ \E u \in Range(SampleUsers), m \in {"Create_Lock", "Update_Lock"} :
             /\ user' = [user EXCEPT ![p] = u]
             /\ Goto(p, m)
             /\ UNCHANGED id
       \/ \E i \in Ids, m \in {"Get_Lock", "Delete_Lock"} :
             /\ id' = [id EXCEPT ![p] = i]
             /\ Goto(p, m)
             /\ UNCHANGED user
       \/ Goto(p, "GetAll_Lock") /\ UNCHANGED << user, id >>
    /\ UNCHANGED << users, mu, http, got, ok, acc, visited, history >>

NextFair ==
    \/ \E p \in Workers : Fair_Call(p)
    \/ \E p \in Workers : LockStep(p)
    \/ \E p \in Workers : BodyStep(p)
    \/ \E p \in Workers : Api_Return(p)

\* The Go scheduler runs every runnable goroutine (weak fairness of the steps
\* that do not block), and the waiters of sync.Mutex and of the semaphores of
\* sync.RWMutex are woken in turn, so a goroutine whose Lock or RLock can be
\* granted again and again is granted it (strong fairness of the steps that
\* take the lock).
Fairness ==
    \A p \in Workers : WF_vars(BodyStep(p)) /\ SF_vars(LockStep(p))

SpecFair == InitStore /\ [][NextFair]_vars /\ Fairness

\* =================================================================== claims
\* Positions at which a goroutine is inside the critical section of a writing
\* method (between Lock and Unlock) or of a reading one (RLock and RUnlock).
WriterCS ==
    {"Create_Assign", "Create_Name", "Create_Email", "Create_Unlock",
     "Update_Check", "Update_Assign", "Update_Name", "Update_Email", "Update_Unlock",
     "Delete_Check", "Delete_Remove", "Delete_Unlock"}
ReaderCS == {"Get_Read", "Get_Unlock", "GetAll_Range"}
\* Positions at which the next step reads or writes s.users.
MapAccess == (WriterCS \cup ReaderCS) \ {"Create_Unlock", "Update_Unlock", "Delete_Unlock", "Get_Unlock"}

\* C1: Create(r) followed by Get(r.ID), with no other method changing that
\* identifier in between, returns found = true and a record equal to r in all
\* three fields.  Stated where Get has read the map and still holds the read
\* lock: if the last method that changed the identifier is a Create, Get found
\* the identifier and its result is the record that Create was passed.
C1_CreateThenGet ==
    \A p \in Workers :
        pc[p] = "Get_Unlock" /\ lastOp[id[p]] = "Create" =>
            /\ ok[p]
            /\ Has(whole, id[p])
            /\ got[p] = whole[id[p]]
            /\ got[p].ID = id[p]

\* A Get that follows a Create has found the record created.
C1_Witness ==
    \E p \in Workers :
        /\ pc[p] = "Get_Unlock"
        /\ lastOp[id[p]] = "Create"
        /\ ok[p]
        /\ got[p] = [ID |-> "2", Name |-> "John Doe", Email |-> "jane@example.com"]

\* C2: no torn record.  Every record Get returns, and every record GetAll has
\* put into its slice, is in all fields together the record that was last
\* passed whole to a Create or an Update of its identifier; so it never mixes
\* the fields of two writes, whatever writes run concurrently.  Stated while
\* the reader still holds the read lock.
C2_NoTornRecord ==
    \A p \in Workers :
        /\ pc[p] = "Get_Unlock" /\ ok[p] =>
              Has(whole, id[p]) /\ got[p] = whole[id[p]]
        /\ pc[p] = "GetAll_Range" =>
              \A i \in 1..Len(acc[p]) :
                  Has(whole, acc[p][i].ID) /\ acc[p][i] = whole[acc[p][i].ID]

\* A reader is inside GetAll, holding a record, while a writer waits to
\* overwrite that record.
C2_Witness ==
    \E p \in Workers, q \in Workers :
        /\ pc[p] = "GetAll_Range"
        /\ Len(acc[p]) > 0
        /\ pc[q] \in {"Create_Lock", "Update_Lock"}
        /\ user[q].ID = acc[p][1].ID
        /\ user[q] # acc[p][1]

\* C3: lock discipline.  While a goroutine is inside the critical section of
\* Create, Update or Delete no other goroutine is inside any critical
\* section; a goroutine inside a critical section holds the lock in the mode
\* of its method, so every access to the map is made under the lock.
C3_LockDiscipline ==
    /\ \A p \in Procs, q \in Procs :
          p # q /\ pc[p] \in WriterCS => pc[q] \notin WriterCS \cup ReaderCS
    /\ \A p \in Procs :
          /\ pc[p] \in WriterCS => p \in mu.w
          /\ pc[p] \in ReaderCS => p \in mu.r
          /\ pc[p] \in MapAccess => p \in mu.w \cup mu.r

\* Two readers are inside their critical sections at the same time.
C3_Witness ==
    \E p \in Workers, q \in Workers :
        /\ p # q
        /\ pc[p] = "Get_Read"
        /\ pc[q] = "GetAll_Range"
        /\ {p, q} \subseteq mu.r

\* Goroutine p takes the step (every step of a handler or of a store method,
\* but an iteration of the range loop, moves pc[p]).
Steps(p) == pc'[p] # pc[p]
\* The step leaves every record but that of identifier k as it is.
OnlyChanges(k) ==
    \A x \in Ids \cup {""} :
        x # k => /\ Has(users', x) <=> Has(users, x)
                 /\ Has(users, x) => users'[x] = users[x]
\* The handler a finished request went to.
Served(p, h) == pc[p] = "done" /\ routed[p] = 1 /\ Route(req[p]) = h

\* C4: Update of an identifier that is not in the store returns false, PUT
\* answers 404, and nothing is inserted: the check of an absent identifier
\* sets the result to false and goes to the Unlock, every step of the call
\* and of its handler leaves the map as it is, and the identifier is still
\* absent when Update returns.
C4_UpdateAbsent ==
    /\ [][\A p \in Procs :
            /\ pc[p] = "Update_Check" /\ ~Has(users, user[p].ID) /\ Steps(p) =>
                  pc'[p] = "Update_Unlock" /\ ~ok'[p] /\ users' = users
            /\ pc[p] \in {"Update_Lock", "Update_Unlock", "Update_Ret"} /\ ~ok[p] /\ Steps(p) =>
                  ~ok'[p] /\ users' = users
            /\ pc[p] = "Update_Ret" /\ ~ok[p] /\ Steps(p) =>
                  resp'[p].status = StatusNotFound /\ pc'[p] = "done"]_vars
    /\ [](\A p \in Procs :
            /\ pc[p] = "Update_Unlock" /\ ~ok[p] => ~Has(users, user[p].ID)
            /\ Served(p, "updateUserHandler") /\ calls[p] = 1 /\ ~ok[p] =>
                  resp[p].status = StatusNotFound)

\* A PUT of an absent identifier was answered 404 and the identifier is absent.
C4_Witness ==
    \E p \in Workers :
        /\ Served(p, "updateUserHandler")
        /\ resp[p].status = StatusNotFound
        /\ ~ok[p]
        /\ ~Has(users, req[p].id)
        /\ Has(users, req[p].body.id)

\* C5: Update of an existing identifier replaces all fields.  When Update
\* has returned true for PUT /users/{id}, the record stored under id has
\* exactly the name and the e-mail address of the request body, the empty
\* string standing for a key the body omits; and no step of the call changes
\* any other record.
C5_UpdateReplaces ==
    /\ [](\A p \in Workers :
            pc[p] = "Update_Unlock" /\ ok[p] =>
                /\ Has(users, req[p].id)
                /\ users[req[p].id].Name =
                      (IF req[p].body.name = Absent THEN "" ELSE req[p].body.name)
                /\ users[req[p].id].Email =
                      (IF req[p].body.email = Absent THEN "" ELSE req[p].body.email))
    /\ [][\A p \in Workers :
            pc[p] \in {"updateUserHandler", "Update_Lock", "Update_Check", "Update_Assign",
                       "Update_Name", "Update_Email", "Update_Unlock", "Update_Ret"}
              /\ Steps(p) => OnlyChanges(req[p].id)]_vars

\* An Update whose body omits the name has replaced John Doe's record, the
\* other record being in the store.
C5_Witness ==
    \E p \in Workers :
        /\ pc[p] = "Update_Unlock"
        /\ ok[p]
        /\ req[p].id = "1"
        /\ req[p].body.name = Absent
        /\ users["1"] = [ID |-> "1", Name |-> "", Email |-> "jane@example.com"]
        /\ Has(users, "2")

\* C6: Delete is idempotent in effect.  A Delete of an identifier in the
\* store removes it and returns true (204); a Delete of an identifier whose
\* last change was a Delete (no Create of it since) finds it absent, returns
\* false (404) and leaves the map as the first Delete left it.
C6_DeleteTwice ==
    /\ [][\A p \in Workers :
            /\ pc[p] = "Delete_Check" /\ Has(users, id[p]) /\ Steps(p) =>
                  pc'[p] = "Delete_Remove" /\ users' = users
            /\ pc[p] = "Delete_Remove" /\ Steps(p) =>
                  ok'[p] /\ ~Has(users', id[p]) /\ OnlyChanges(id[p])
            /\ pc[p] = "Delete_Check" /\ lastOp[id[p]] = "Delete" /\ Steps(p) =>
                  ~ok'[p] /\ pc'[p] = "Delete_Unlock" /\ users' = users
            /\ pc[p] \in {"Delete_Lock", "Delete_Unlock", "Delete_Ret"} /\ Steps(p) =>
                  ok'[p] = ok[p] /\ users' = users]_vars
    /\ [](\A p \in Workers :
            /\ pc[p] = "Delete_Unlock" => ~Has(users, id[p])
            /\ Served(p, "deleteUserHandler") =>
                  resp[p].status = (IF ok[p] THEN StatusNoContent ELSE StatusNotFound))

\* A second DELETE of an identifier, with no Create of it in between, was
\* answered 404.
C6_Witness ==
    \E p \in Workers :
        /\ Served(p, "deleteUserHandler")
        /\ resp[p].status = StatusNotFound
        /\ lastOp[req[p].id] = "Delete"
        /\ ~Has(users, req[p].id)

\* C7: on a new store, after N Creates with pairwise distinct identifiers and
\* no Delete, GetAll returns exactly N records, no two of them equal, one for
\* each identifier created; and unless an Update has replaced one of them
\* they are, as a set, exactly the N records created.  Stated where the range
\* loop of GetAll has ended and the read lock is still held.
C7_GetAllAfterCreates ==
    \A p \in Workers :
        pc[p] = "GetAll_Range" /\ DOMAIN users \ visited[p] = {} /\ created.distinct =>
            /\ Len(acc[p]) = Cardinality(created.ids)
            /\ \A i, j \in 1..Len(acc[p]) : i # j => acc[p][i] # acc[p][j]
            /\ {acc[p][i].ID : i \in 1..Len(acc[p])} = created.ids
            /\ ~created.changed => Range(acc[p]) = created.recs

\* GetAll has collected the two records created on the new store.
C7_Witness ==
    \E p \in Workers :
        /\ pc[p] = "GetAll_Range"
        /\ DOMAIN users \ visited[p] = {}
        /\ created.distinct
        /\ ~created.changed
        /\ Len(acc[p]) = 2
        /\ Range(acc[p]) = created.recs

\* A value of a body that leaves the decoded field empty.
Empty(v) == v \in {Absent, ""}
\* No Create or Update is inside its assignment.
NoWriteInProgress == mu.w = {}

\* C8 as claimed: POST and PUT both check the required fields before they
\* invoke the store, so the store is never invoked with an empty name or
\* e-mail address and every stored record has a non-empty ID, Name and Email.
C8_Claimed ==
    /\ \A p \in Workers :
          calls[p] > 0 /\ Route(req[p]) \in {"createUserHandler", "updateUserHandler"} =>
              user[p].ID # "" /\ user[p].Name # "" /\ user[p].Email # ""
    /\ NoWriteInProgress =>
          \A k \in DOMAIN users :
              users[k].ID # "" /\ users[k].Name # "" /\ users[k].Email # ""

\* C8 as amended: POST invokes the store only with a record whose ID, Name
\* and Email are non-empty; PUT makes no such check, it only sets the ID to
\* the path parameter.  So every stored record has a non-empty ID, and a
\* record last written by Create has a non-empty Name and Email as well; an
\* empty Name or Email is the work of an Update.
C8_RequiredFields ==
    /\ \A p \in Workers :
          /\ calls[p] > 0 /\ Route(req[p]) = "createUserHandler" =>
                user[p].ID # "" /\ user[p].Name # "" /\ user[p].Email # ""
          /\ calls[p] > 0 /\ Route(req[p]) = "updateUserHandler" => user[p].ID # ""
    /\ NoWriteInProgress =>
          \A k \in DOMAIN users :
              /\ users[k].ID # ""
              /\ lastOp[k] = "Create" => users[k].Name # "" /\ users[k].Email # ""
              /\ users[k].Name = "" \/ users[k].Email = "" => lastOp[k] = "Update"

\* A PUT whose body omits the name has been stored, next to a record that a
\* POST created.
C8_Witness ==
    \E k \in DOMAIN users, j \in DOMAIN users :
        /\ NoWriteInProgress
        /\ users[k].Name = ""
        /\ lastOp[k] = "Update"
        /\ lastOp[j] = "Create"
        /\ \E p \in Workers : Served(p, "createUserHandler") /\ resp[p].status = StatusCreated
                                /\ req[p].body.id = j

\* C9: POST /users with an empty identifier, name or e-mail address answers
\* 400, invokes no store method and leaves the map as it is; with all three
\* non-empty it invokes Create once with the record of the body, Create
\* stores that record under its identifier, and the answer is 201 with that
\* record as its body.  A body that does not decode answers 400 as well.
C9_PostUsers ==
    /\ [][\A p \in Workers :
            pc[p] = "createUserHandler" /\ Steps(p) =>
                /\ users' = users
                /\ IF req[p].body.valid /\ ~Empty(req[p].body.id)
                        /\ ~Empty(req[p].body.name) /\ ~Empty(req[p].body.email)
                     THEN /\ pc'[p] = "Create_Lock"
                          /\ calls'[p] = 1
                          /\ user'[p] = [ID |-> req[p].body.id, Name |-> req[p].body.name,
                                         Email |-> req[p].body.email]
                     ELSE /\ pc'[p] = "done"
                          /\ calls'[p] = 0
                          /\ resp'[p].status = StatusBadRequest]_vars
    /\ [](\A p \in Workers :
            /\ pc[p] = "Create_Unlock" =>
                  Has(users, user[p].ID) /\ users[user[p].ID] = user[p]
            /\ Served(p, "createUserHandler") /\ resp[p].status # StatusBadRequest =>
                  /\ resp[p].status = StatusCreated
                  /\ calls[p] = 1
                  /\ resp[p].kind = "user"
                  /\ resp[p].user = user[p]
                  /\ resp[p].user = [ID |-> req[p].body.id, Name |-> req[p].body.name,
                                     Email |-> req[p].body.email]
            /\ Served(p, "createUserHandler") /\ resp[p].status = StatusBadRequest =>
                  calls[p] = 0)

\* A POST was answered 201 with the record that is stored, while another
\* POST, whose body has no name, was answered 400.
C9_Witness ==
    \E p \in Workers, q \in Workers :
        /\ Served(p, "createUserHandler")
        /\ resp[p].status = StatusCreated
        /\ Has(users, req[p].body.id)
        /\ users[req[p].body.id] = resp[p].user
        /\ Served(q, "createUserHandler")
        /\ req[q].body.valid
        /\ Empty(req[q].body.name)
        /\ resp[q].status = StatusBadRequest

\* C10: PUT /users/{id} forces the identifier to the path parameter.
\* Whatever identifier the body carries, Update is called with the ID of the
\* path, no step of the request changes a record other than that of the path
\* id (so none under the identifier of the body), and the record stored and
\* echoed has the ID of the path.
C10_PathIdWins ==
    /\ [][\A p \in Workers :
            /\ pc[p] = "updateUserHandler" /\ req[p].body.valid /\ Steps(p) =>
                  pc'[p] = "Update_Lock" /\ user'[p].ID = req[p].id
            /\ Route(req[p]) = "updateUserHandler" /\ Steps(p) => OnlyChanges(req[p].id)]_vars
    /\ [](\A p \in Workers :
            /\ pc[p] = "Update_Unlock" /\ ok[p] =>
                  Has(users, req[p].id) /\ users[req[p].id].ID = req[p].id
            /\ Served(p, "updateUserHandler") /\ resp[p].status = StatusOK =>
                  resp[p].user.ID = req[p].id)

\* An Update for the path id has succeeded although the body carries the
\* identifier of another stored record.
C10_Witness ==
    \E p \in Workers :
        /\ pc[p] = "Update_Unlock"
        /\ ok[p]
        /\ req[p].body.id # req[p].id
        /\ Has(users, req[p].body.id)
        /\ users[req[p].id] = [ID |-> req[p].id, Name |-> "Jane Smith", Email |-> "jane@example.com"]

\* C11: DELETE /users/{id}.  When the identifier is absent the request
\* changes nothing and is answered 404; when it is present the request
\* removes the record under that identifier and no other, every other record
\* staying as it was, and is answered 204.  A Get of an identifier whose last
\* change was a Delete finds nothing, and GET /users/{id} then answers 404.
C11_DeleteUser ==
    /\ [][\A p \in Workers :
            /\ Route(req[p]) = "deleteUserHandler" /\ Steps(p) =>
                  /\ OnlyChanges(req[p].id)
                  /\ users' # users =>
                        /\ pc[p] = "Delete_Remove"
                        /\ DOMAIN users' = DOMAIN users \ {req[p].id}
            /\ pc[p] = "Delete_Check" /\ ~Has(users, id[p]) /\ Steps(p) =>
                  ~ok'[p] /\ users' = users
            /\ pc[p] = "Delete_Ret" /\ Steps(p) =>
                  /\ resp'[p].status = (IF ok[p] THEN StatusNoContent ELSE StatusNotFound)
                  /\ resp'[p].kind = (IF ok[p] THEN "none" ELSE "not found")]_vars
    /\ [](\A p \in Workers :
            /\ pc[p] = "Get_Unlock" /\ lastOp[id[p]] = "Delete" => ~ok[p]
            /\ Served(p, "getUserHandler") /\ ~ok[p] =>
                  resp[p].status = StatusNotFound
            /\ Served(p, "deleteUserHandler") /\ ~ok[p] =>
                  resp[p].status = StatusNotFound)

\* A DELETE was answered 204 and the GET of the same identifier that
\* followed it was answered 404.
C11_Witness ==
    \E p, q \in Workers :
        /\ p # q
        /\ Served(q, "deleteUserHandler")
        /\ resp[q].status = StatusNoContent
        /\ Served(p, "getUserHandler")
        /\ req[p].id = req[q].id
        /\ lastOp[req[p].id] = "Delete"
        /\ resp[p].status = StatusNotFound

\* C12: an OPTIONS request to any path is answered 200 by the middleware
\* itself: the cross-origin headers are set, the router is never invoked, no
\* store operation is called and the map is unchanged.  A request of any
\* other method has the headers set and is handed to the router exactly once,
\* the middleware writing no response of its own.
C12_Preflight ==
    /\ [][\A p \in Workers :
            /\ pc[p] = "idle" /\ Steps(p) =>
                  /\ cors'[p] /\ users' = users /\ mu' = mu /\ calls'[p] = 0
                  /\ req'[p].method = "OPTIONS" =>
                        /\ pc'[p] = "done" /\ routed'[p] = 0
                        /\ resp'[p].status = StatusOK /\ resp'[p].kind = "none"
                  /\ req'[p].method # "OPTIONS" =>
                        /\ pc'[p] = Route(req'[p]) /\ routed'[p] = 1
                        /\ resp'[p] = NoResp
            /\ req[p].method = "OPTIONS" /\ Steps(p) =>
                  pc'[p] = "idle" /\ users' = users /\ mu' = mu
            /\ pc[p] # "idle" /\ pc'[p] # "idle" => routed'[p] = routed[p]]_vars
    /\ [](\A p \in Workers :
            /\ req[p].method = "OPTIONS" =>
                  /\ pc[p] = "done" /\ cors[p]
                  /\ routed[p] = 0 /\ calls[p] = 0 /\ p \notin mu.w \cup mu.r
                  /\ resp[p].status = StatusOK
            /\ req[p].method \in Methods \ {"OPTIONS"} =>
                  cors[p] /\ routed[p] = 1)

\* An OPTIONS request to the path of a stored user was answered 200 without
\* reaching the router, while a DELETE request is with its handler.
C12_Witness ==
    \E p, q \in Workers :
        /\ req[p].method = "OPTIONS" /\ req[p].path = "/users/{id}"
        /\ Has(users, req[p].id)
        /\ resp[p].status = StatusOK
        /\ routed[p] = 0
        /\ req[q].method = "DELETE" /\ routed[q] = 1 /\ pc[q] = "deleteUserHandler"

\* C13: a read observes the last write.  While a reader holds the read lock
\* no write is half done, so the map is exactly the records last passed to a
\* Create or an Update of each identifier, less the identifiers deleted since.
\* Get finds an identifier exactly when its last write was not a Delete and
\* returns the record of that write; GetAll collects exactly those records;
\* and the handlers answer with what the store returned, nothing being
\* cached in between.
C13_ReadYourWrites ==
    \A p \in Workers :
        /\ pc[p] \in ReaderCS => users = whole
        /\ pc[p] = "Get_Unlock" =>
              /\ ok[p] = Has(whole, id[p])
              /\ ok[p] = (lastOp[id[p]] \in {"Create", "Update"})
              /\ got[p] = Lookup(whole, id[p])
        /\ pc[p] = "GetAll_Range" /\ DOMAIN users \ visited[p] = {} =>
              /\ Range(acc[p]) = {whole[k] : k \in DOMAIN whole}
              /\ Len(acc[p]) = Cardinality(DOMAIN whole)
        /\ Served(p, "getUserHandler") /\ ok[p] =>
              resp[p].status = StatusOK /\ resp[p].user = got[p]
        /\ Served(p, "getAllUsersHandler") =>
              resp[p].status = StatusOK /\ resp[p].users = acc[p]

\* A GET has read, under the lock, the record a PUT of the same identifier
\* stored after main had seeded it.
C13_Witness ==
    \E p \in Workers :
        /\ pc[p] = "Get_Unlock"
        /\ Route(req[p]) = "getUserHandler"
        /\ lastOp[id[p]] = "Update"
        /\ ok[p]
        /\ got[p] = whole[id[p]]
        /\ got[p] \notin Range(SampleUsers)

\* C14: identifiers are unique and Create overwrites silently.  A Create of
\* an identifier already in the store has no failure path: it leaves the set
\* of identifiers, hence the number of records, as it was, touches no other
\* record, and when its three assignments are done the record under the
\* identifier is the one passed; POST /users is then answered 201.  GetAll
\* never holds two records with the same ID.
C14_CreateOverwrites ==
    /\ [][\A p \in Procs :
            /\ pc[p] = "Create_Assign" /\ Has(users, user[p].ID) /\ Steps(p) =>
                  /\ DOMAIN users' = DOMAIN users
                  /\ OnlyChanges(user[p].ID)
                  /\ pc'[p] = "Create_Name"
            /\ pc[p] = "Create_Assign" /\ ~Has(users, user[p].ID) /\ Steps(p) =>
                  DOMAIN users' = DOMAIN users \cup {user[p].ID}
            /\ pc[p] \in {"Create_Name", "Create_Email"} /\ Steps(p) =>
                  DOMAIN users' = DOMAIN users /\ OnlyChanges(user[p].ID)
            /\ pc[p] = "Create_Email" /\ Steps(p) => pc'[p] = "Create_Unlock"
            /\ pc[p] = "Create_Unlock" /\ Steps(p) =>
                  pc'[p] = "Create_Ret" /\ users' = users
            /\ pc[p] = "Create_Ret" /\ p \in Workers /\ Steps(p) =>
                  resp'[p].status = StatusCreated]_vars
    /\ [](\A p \in Procs :
            /\ pc[p] = "Create_Unlock" => users[user[p].ID] = user[p]
            /\ pc[p] = "GetAll_Range" =>
                  \A i, j \in 1..Len(acc[p]) : i # j => acc[p][i].ID # acc[p][j].ID)

\* A POST of John Doe's identifier with another record has overwritten the
\* seeded record, the store holding two records as before.
C14_Witness ==
    \E p \in Workers :
        /\ pc[p] = "Create_Unlock"
        /\ user[p].ID = "1"
        /\ users["1"] = user[p]
        /\ user[p] # SampleUsers[1]
        /\ DOMAIN users = {"1", "2"}
        /\ lastOp["2"] = "Create"

LockWait == {"Create_Lock", "Get_Lock", "GetAll_Lock", "Update_Lock", "Delete_Lock"}
Returned == {"Create_Ret", "Get_Ret", "GetAll_Ret", "Update_Ret", "Delete_Ret"}

\* C15: locks are always released.  A goroutine holds s.mu only inside the
\* critical section of the method it is running, in the mode of that method
\* and never in both modes, so a method that has returned, by whatever path
\* (Update and Delete returning false included), has released it.  Whenever a
\* goroutine waits for the lock, either it can go on itself or a goroutine
\* that holds the lock or is pending for it can take a step: there is no
\* deadlock.  Under fair scheduling every store
\* operation that has started returns.
C15_LocksReleased ==
    /\ [](\A p \in Procs :
            /\ p \in mu.w => pc[p] \in WriterCS
            /\ p \in mu.r => pc[p] \in ReaderCS
            /\ p \in mu.pending => pc[p] \in {"Create_Lock", "Update_Lock", "Delete_Lock"}
            /\ pc[p] \in Returned \cup {"idle"} => p \notin mu.w \cup mu.r \cup mu.pending
            /\ pc[p] \in LockWait =>
                  \/ ENABLED LockStep(p)
                  \/ \E q \in (mu.w \cup mu.r \cup mu.pending) \ {p} :
                        ENABLED LockStep(q) \/ ENABLED BodyStep(q))
    /\ \A p \in Workers :
          [](pc[p] \in LockWait \cup WriterCS \cup ReaderCS => <>(pc[p] \in Returned))

\* An Update of an absent identifier and a Delete of an absent identifier
\* have both returned false, and the lock is free.
C15_Witness ==
    \E p, q \in Workers :
        /\ pc[p] = "Update_Ret" /\ ~ok[p]
        /\ pc[q] = "Delete_Ret" /\ ~ok[q]
        /\ mu.w = {} /\ mu.r = {} /\ mu.pending = {}

\* C16: GetAll returns a snapshot copy.  From the moment GetAll has the read
\* lock until its loop has ended the map does not change, whatever Create,
\* Update and Delete calls are under way; what the loop has collected so far
\* is the records of the entries visited, and when the loop ends the slice is
\* the full content of the map at that instant, one element for each entry.
\* The slice is the caller's own: once GetAll has returned, no step of another
\* goroutine changes it.
C16_Snapshot ==
    /\ [][\A p \in Workers :
            /\ pc[p] = "GetAll_Range" => users' = users
            /\ pc[p] = "GetAll_Range" /\ Steps(p) =>
                  pc'[p] = "GetAll_Ret" /\ acc'[p] = acc[p]
            /\ pc[p] = "GetAll_Ret" /\ ~Steps(p) => acc'[p] = acc[p]]_vars
    /\ [](\A p \in Workers :
            /\ pc[p] = "GetAll_Range" =>
                  /\ visited[p] \subseteq DOMAIN users
                  /\ Len(acc[p]) = Cardinality(visited[p])
                  /\ Range(acc[p]) = {users[k] : k \in visited[p]}
            /\ pc[p] = "GetAll_Range" /\ DOMAIN users \ visited[p] = {} =>
                  /\ Range(acc[p]) = {users[k] : k \in DOMAIN users}
                  /\ Len(acc[p]) = Cardinality(DOMAIN users))

\* GetAll has returned two records; since then a Delete has removed one of
\* them and an Update, now half done, is replacing the other.
C16_Witness ==
    \E p, q \in Workers :
        /\ pc[p] = "GetAll_Ret"
        /\ Len(acc[p]) = 2
        /\ pc[q] = "Update_Name"
        /\ Cardinality(DOMAIN users) = 1
        /\ \E i \in 1..2 : acc[p][i].ID = user[q].ID /\ acc[p][i] # user[q]
        /\ \E i \in 1..2 : lastOp[acc[p][i].ID] = "Delete"

\* C17: a body that does not decode ends the request.  createUserHandler and
\* updateUserHandler given such a body write 400 in their first step and are
\* done: no store operation has been or will be called for the request, the
\* map and the lock are as they were, and the only step left to the request
\* is its end, which changes neither.
C17_DecodeError ==
    /\ [][\A p \in Workers :
            /\ pc[p] \in {"createUserHandler", "updateUserHandler"}
                 /\ ~DecodeOk(req[p].body) /\ Steps(p) =>
                  /\ pc'[p] = "done"
                  /\ resp'[p].status = StatusBadRequest
                  /\ resp'[p].kind = "decode error"
                  /\ calls'[p] = 0
                  /\ users' = users /\ mu' = mu /\ whole' = whole
            /\ pc[p] = "done" /\ Steps(p) =>
                  pc'[p] = "idle" /\ users' = users /\ mu' = mu]_vars
    /\ [](\A p \in Workers :
            Route(req[p]) \in {"createUserHandler", "updateUserHandler"}
              /\ ~DecodeOk(req[p].body) =>
                  /\ pc[p] \in {Route(req[p]), "done"}
                  /\ calls[p] = 0
                  /\ p \notin mu.w \cup mu.r
                  /\ pc[p] = "done" =>
                        resp[p].status = StatusBadRequest /\ resp[p].kind = "decode error")

\* A PUT to the path of a stored user with a body that does not decode was
\* answered 400, the record being the one main seeded.
C17_Witness ==
    \E p \in Workers :
        /\ Served(p, "updateUserHandler")
        /\ ~DecodeOk(req[p].body)
        /\ resp[p].status = StatusBadRequest
        /\ calls[p] = 0
        /\ Has(users, req[p].id)
        /\ users[req[p].id] \in Range(SampleUsers)

\* C18: the key of an entry is the ID of its record.  In every reachable
\* state with no assignment half done, the seeding by main included, each
\* record of the map has as ID the key it is stored under; so has each record
\* passed to a Create or an Update that took effect.  Hence Get returns a
\* record that carries the identifier asked for, and every record GetAll
\* collects is the one stored under its own ID.
C18_KeyIsID ==
    /\ NoWriteInProgress => \A k \in DOMAIN users : users[k].ID = k
    /\ \A k \in DOMAIN whole : whole[k].ID = k
    /\ \A p \in Procs :
          /\ pc[p] \in {"Create_Unlock", "Update_Unlock"} /\ (pc[p] = "Update_Unlock" => ok[p]) =>
                Has(users, user[p].ID) /\ users[user[p].ID].ID = user[p].ID
          /\ pc[p] = "Get_Unlock" /\ ok[p] => got[p].ID = id[p]
          /\ pc[p] = "GetAll_Range" =>
                \A i \in 1..Len(acc[p]) :
                    Has(users, acc[p][i].ID) /\ users[acc[p][i].ID] = acc[p][i]

\* A PUT whose body names another identifier than its path has been stored
\* and answered 200, the seeded record of that other identifier standing.
C18_Witness ==
    \E p \in Workers :
        /\ NoWriteInProgress
        /\ Served(p, "updateUserHandler")
        /\ resp[p].status = StatusOK
        /\ req[p].body.id \in Ids \ {req[p].id}
        /\ users[req[p].id] = user[p]
        /\ Has(users, req[p].body.id)
        /\ users[req[p].body.id] \in Range(SampleUsers)

\* C19: Update's check and replacement are one critical section.  From the
\* check that found the identifier to the last of the three assignments the
\* identifier stays in the map and no other goroutine changes the map, so no
\* Delete comes in between.  Only Create adds a key: Update never puts back a
\* record that Delete removed.  An Update that checks an identifier whose
\* last change was a Delete returns false and changes nothing, and with no
\* assignment half done such an identifier is absent; so when Delete has
\* returned true, an Update of the same identifier returned true only if it
\* ran before the Delete, and the identifier is absent until a Create.
C19_UpdateVsDelete ==
    /\ [][/\ \A k \in Ids \cup {""} :
                ~Has(users, k) /\ Has(users', k) =>
                    \E p \in Procs :
                        pc[p] = "Create_Assign" /\ user[p].ID = k /\ Steps(p)
          /\ \A p \in Procs :
                /\ pc[p] \in {"Update_Assign", "Update_Name", "Update_Email"} /\ ~Steps(p) =>
                      users' = users
                /\ pc[p] = "Update_Check" /\ lastOp[user[p].ID] = "Delete" /\ Steps(p) =>
                      ~ok'[p] /\ pc'[p] = "Update_Unlock" /\ users' = users]_vars
    /\ [](/\ \A p \in Procs :
                /\ pc[p] \in {"Update_Assign", "Update_Name", "Update_Email"} =>
                      Has(users, user[p].ID)
                /\ pc[p] = "Update_Unlock" /\ ok[p] =>
                      Has(users, user[p].ID) /\ lastOp[user[p].ID] = "Update"
                /\ pc[p] = "Delete_Unlock" /\ ok[p] =>
                      ~Has(users, id[p]) /\ lastOp[id[p]] = "Delete"
          /\ NoWriteInProgress =>
                \A k \in Ids : lastOp[k] = "Delete" => ~Has(users, k))

\* A Delete has returned true and an Update of the same identifier, called
\* while the Delete was under way, has then found it absent.
C19_Witness ==
    \E p, q \in Workers :
        /\ pc[q] = "Delete_Ret" /\ ok[q]
        /\ pc[p] = "Update_Unlock" /\ ~ok[p]
        /\ user[p].ID = id[q]
        /\ lastOp[id[q]] = "Delete"
        /\ ~Has(users, id[q])

\* C20: reads do not write.  No step of a GET /health, GET /users/{id} or
\* GET /users request changes the map, and no step of Get or GetAll does,
\* whoever calls them; GET /health calls no store operation and never holds
\* the lock, and the two other requests call exactly one.
C20_ReadOnly ==
    /\ [][\A p \in Procs :
            /\ Route(req[p]) \in {"healthCheckHandler", "getUserHandler", "getAllUsersHandler"}
                 /\ (Steps(p) \/ acc'[p] # acc[p]) =>
                  users' = users /\ whole' = whole /\ lastOp' = lastOp
            /\ pc[p] \in {"Get_Lock", "Get_Read", "Get_Unlock", "Get_Ret",
                          "GetAll_Lock", "GetAll_Range", "GetAll_Ret"}
                 /\ (Steps(p) \/ acc'[p] # acc[p]) =>
                  users' = users
            /\ pc[p] = "healthCheckHandler" /\ Steps(p) =>
                  /\ pc'[p] = "done" /\ calls'[p] = 0 /\ mu' = mu
                  /\ resp'[p].status = StatusOK /\ resp'[p].kind = "health"]_vars
    /\ [](\A p \in Workers :
            /\ Route(req[p]) = "healthCheckHandler" =>
                  /\ pc[p] \in {"healthCheckHandler", "done"}
                  /\ calls[p] = 0 /\ p \notin mu.w \cup mu.r
            /\ Served(p, "getUserHandler") \/ Served(p, "getAllUsersHandler") =>
                  calls[p] = 1)

\* A GET /users and a GET /users/{id} have been served and the store is as
\* main seeded it.
C20_Witness ==
    \E p, q \in Workers :
        /\ Served(p, "getAllUsersHandler")
        /\ Len(resp[p].users) = Len(SampleUsers)
        /\ Served(q, "getUserHandler")
        /\ resp[q].status = StatusOK
        /\ \A k \in DOMAIN users : users[k] \in Range(SampleUsers) /\ lastOp[k] = "Create"
        /\ DOMAIN users = Ids

====
